---- MODULE Spec2Model ----
(***************************************************************************)
(* A model of engine.c, the scalar reverse-mode autograd engine.           *)
(*                                                                         *)
(* The heap of Value objects is the sequence `nodes`: a Value* is an index *)
(* into it, in allocation order.  A float is a record: a finite value      *)
(* (an integer, exact in a float below 2^24), an infinity or NaN.          *)
(* reverse() is modelled step by step: the call (build_dag and the seed),  *)
(* one action per iteration of its loop, and the return.                   *)
(*                                                                         *)
(*   nodes    the heap of Value objects                                    *)
(*   pc       "idle" between calls, "walk" inside reverse(), "fault" once  *)
(*            the process was stopped                                      *)
(*   root     reverse()'s argument, 0 outside reverse()                    *)
(*   dag      reverse()'s array dag[0 .. dag_size-1]                       *)
(*   visited  reverse()'s array visited[0 .. len_visited-1]                *)
(*   i        the loop index of reverse(), counted from 1                  *)
(*   passes   history: how often reverse() has been called                 *)
(*   rooted   history: the nodes reverse() has been called on              *)
(*   entry    history: the heap as it was when reverse() was called        *)
(***************************************************************************)
EXTENDS Integers, Sequences, FiniteSets

VARIABLES nodes, pc, root, dag, visited, i, passes, rooted, entry

vars == <<nodes, pc, root, dag, visited, i, passes, rooted, entry>>

(***************************************************************************)
(* Bounds of the model.                                                    *)
(***************************************************************************)
MaxNodes == 4
MaxPasses == 2
MaxExp == 2
LeafVals == {-1, 0, 1}

\* the arithmetic of leaves: values beyond the clip range on both sides
MaxArithNodes == 4
MaxArithPasses == 1
ArithVals == {-12, -3, 0, 2, 11}

\* clipping under accumulation
MaxClipNodes == 5
MaxClipPasses == 2
ClipVals == {-12, 6}

\* repeated passes over one graph
MaxRepeatNodes == 3
MaxRepeatPasses == 11
RepeatVals == {2}

\* sums of doubled leaves, the larger one of 998 nodes
SumLeaves == {250, 333}
MaxSumPasses == 1

(***************************************************************************)
(* Program constants.                                                      *)
(***************************************************************************)
MIN_RANGE == -10
MAX_RANGE == 10
MAX_DAG_SIZE == 1000

\* 2^24: every integer up to it is a float, and the sums and products of the
\* model are exact as long as they stay below it
ExactMax == 16777216

(***************************************************************************)
(* float: IEEE values as far as the engine can tell them apart.            *)
(***************************************************************************)
F(n) == [k |-> "fin", v |-> n]
NaN == [k |-> "nan", v |-> 0]
PInf == [k |-> "inf", v |-> 1]
NInf == [k |-> "inf", v |-> -1]

IsNaN(x) == x.k = "nan"
IsFin(x) == x.k = "fin"
IsInf(x) == x.k = "inf"

Abs(n) == IF n < 0 THEN -n ELSE n

Sign(n) == IF n > 0 THEN 1 ELSE IF n < 0 THEN -1 ELSE 0

\* x + y
FAdd(x, y) ==
  IF IsNaN(x) \/ IsNaN(y) THEN NaN
  ELSE IF IsInf(x) /\ IsInf(y) THEN (IF x.v = y.v THEN x ELSE NaN)
  ELSE IF IsInf(x) THEN x
  ELSE IF IsInf(y) THEN y
  ELSE F(x.v + y.v)

\* x * y
FMul(x, y) ==
  IF IsNaN(x) \/ IsNaN(y) THEN NaN
  ELSE IF IsInf(x) \/ IsInf(y)
       THEN (IF x.v = 0 \/ y.v = 0 THEN NaN
             ELSE [k |-> "inf", v |-> Sign(x.v) * Sign(y.v)])
  ELSE F(x.v * y.v)

\* x < c and x > c for a finite constant c: false on NaN
FLt(x, c) == IF IsNaN(x) THEN FALSE ELSE IF IsInf(x) THEN x.v < 0 ELSE x.v < c
FGt(x, c) == IF IsNaN(x) THEN FALSE ELSE IF IsInf(x) THEN x.v > 0 ELSE x.v > c

RECURSIVE IntPow(_, _)
IntPow(a, n) == IF n = 0 THEN 1 ELSE a * IntPow(a, n - 1)

\* The finite (a, b) whose power is an integer or an infinity.  The sign of
\* pow(0, b) for b < 0 is the sign of the zero, which F(0) does not keep:
\* pwr() is modelled on bases other than 0 there.
PowExact(a, b) == b >= 0 \/ a \in {-1, 1}

\* pow(a, b), powf(a, b) on finite operands
Pow(a, b) ==
  IF b >= 0 THEN F(IntPow(a, b))
  ELSE IF a = 0 THEN PInf
  ELSE F(IntPow(a, -b))

\* The finite a whose logarithm is 0, -inf or NaN
LogExact(a) == a <= 1

\* log(a) on a finite operand
Log(a) == IF a = 1 THEN F(0) ELSE IF a = 0 THEN NInf ELSE NaN

(***************************************************************************)
(* struct Value and defaultValue                                           *)
(***************************************************************************)
Value(x, ch, rev) == [data |-> x, grad |-> F(0), children |-> ch, reverse |-> rev]

defaultValue(x) == Value(x, <<>>, "NULL")

Ids == 1..Len(nodes)

\* grad_clip without the upper bound
grad_clip_lower_only(g) == IF FLt(g, MIN_RANGE) THEN F(MIN_RANGE) ELSE g

\* -10.0 and 10 as the float stored by grad_clip
grad_clip(g) ==
  IF FLt(g, MIN_RANGE) THEN F(MIN_RANGE)
  ELSE IF FGt(g, MAX_RANGE) THEN F(MAX_RANGE)
  ELSE g

(***************************************************************************)
(* build_dag: st is the pair of arrays; dag_size = Len(st.dag) and         *)
(* len_visited = Len(st.visited).                                          *)
(***************************************************************************)
\* the scan of lines 773-775: the first dag_size slots of visited
Seen(st, val) == \E j \in 1..Len(st.dag) : st.visited[j] = val

\* build_dag emitting a node before its operands
RECURSIVE build_dag_preorder(_, _, _)
RECURSIVE build_children_preorder(_, _, _, _)
build_dag_preorder(ns, val, st) ==
  IF Seen(st, val) THEN st
  ELSE build_children_preorder(ns, val, 1,
         [st EXCEPT !.visited = Append(@, val), !.dag = Append(@, val)])

build_children_preorder(ns, val, j, st) ==
  IF j > Len(ns[val].children) THEN st
  ELSE build_children_preorder(ns, val, j + 1,
         build_dag_preorder(ns, ns[val].children[j], st))

RECURSIVE build_dag(_, _, _)
RECURSIVE build_children(_, _, _, _)
build_dag(ns, val, st) ==
  IF Seen(st, val) THEN st
  ELSE LET st1 == [st EXCEPT !.visited = Append(@, val)]
           st2 == build_children(ns, val, 1, st1)
       IN  [st2 EXCEPT !.dag = Append(@, val)]

build_children(ns, val, j, st) ==
  IF j > Len(ns[val].children) THEN st
  ELSE build_children(ns, val, j + 1, build_dag(ns, ns[val].children[j], st))

(***************************************************************************)
(* The gradient rules: each returns the heap after the rule ran on c.      *)
(***************************************************************************)
Clip2(ns, c) ==
  LET a == ns[c].children[1]
      b == ns[c].children[2]
      n1 == [ns EXCEPT ![a].grad = grad_clip(@)]
  IN  [n1 EXCEPT ![b].grad = grad_clip(@)]

\* add_reverse storing into the second operand instead of adding to it
add_reverse_overwrite(ns, c) ==
  LET a == ns[c].children[1]
      b == ns[c].children[2]
      n1 == [ns EXCEPT ![a].grad = FAdd(@, ns[c].grad)]
      n2 == [n1 EXCEPT ![b].grad = n1[c].grad]
  IN  Clip2(n2, c)

\* add_reverse without the two calls of grad_clip
add_reverse_unclipped(ns, c) ==
  LET a == ns[c].children[1]
      b == ns[c].children[2]
      n1 == [ns EXCEPT ![a].grad = FAdd(@, ns[c].grad)]
  IN  [n1 EXCEPT ![b].grad = FAdd(@, n1[c].grad)]

\* add_reverse leaving the second operand out
add_reverse_first_only(ns, c) ==
  LET a == ns[c].children[1]
      n1 == [ns EXCEPT ![a].grad = FAdd(@, ns[c].grad)]
  IN  Clip2(n1, c)

add_reverse(ns, c) ==
  LET a == ns[c].children[1]
      b == ns[c].children[2]
      n1 == [ns EXCEPT ![a].grad = FAdd(@, ns[c].grad)]
      n2 == [n1 EXCEPT ![b].grad = FAdd(@, n1[c].grad)]
  IN  Clip2(n2, c)

\* mul_reverse scaling each operand by its own value
mul_reverse_own_value(ns, c) ==
  LET a == ns[c].children[1]
      b == ns[c].children[2]
      n1 == [ns EXCEPT ![a].grad = FAdd(@, FMul(ns[c].grad, F(ns[a].data)))]
      n2 == [n1 EXCEPT ![b].grad = FAdd(@, FMul(n1[c].grad, F(n1[b].data)))]
  IN  Clip2(n2, c)

mul_reverse(ns, c) ==
  LET a == ns[c].children[1]
      b == ns[c].children[2]
      n1 == [ns EXCEPT ![a].grad = FAdd(@, FMul(ns[c].grad, F(ns[b].data)))]
      n2 == [n1 EXCEPT ![b].grad = FAdd(@, FMul(n1[c].grad, F(n1[a].data)))]
  IN  Clip2(n2, c)

pwr_reverse(ns, c) ==
  LET a == ns[c].children[1]
      b == ns[c].children[2]
      n1 == [ns EXCEPT ![a].grad =
               FAdd(@, FMul(FMul(F(ns[b].data), Pow(ns[a].data, ns[b].data - 1)),
                            ns[c].grad))]
      n2 == IF n1[b].data > 0
            THEN [n1 EXCEPT ![b].grad =
                    FAdd(@, FAdd(FMul(Log(n1[a].data), F(n1[c].data)), n1[c].grad))]
            ELSE n1
  IN  Clip2(n2, c)

\* relu_reverse passing the gradient at 0 as well
relu_reverse_at_zero(ns, c) ==
  LET a == ns[c].children[1]
      n1 == [ns EXCEPT ![a].grad =
               FAdd(@, IF ns[a].data >= 0 THEN ns[c].grad ELSE F(0))]
  IN  [n1 EXCEPT ![a].grad = grad_clip(@)]

relu_reverse(ns, c) ==
  LET a == ns[c].children[1]
      n1 == [ns EXCEPT ![a].grad =
               FAdd(@, IF ns[a].data > 0 THEN ns[c].grad ELSE F(0))]
  IN  [n1 EXCEPT ![a].grad = grad_clip(@)]

\* dag[i]->reverse(dag[i]) through the function pointer
ApplyRule(ns, c) ==
  CASE ns[c].reverse = "add_reverse" -> add_reverse(ns, c)
    [] ns[c].reverse = "mul_reverse" -> mul_reverse(ns, c)
    [] ns[c].reverse = "pwr_reverse" -> pwr_reverse(ns, c)
    [] ns[c].reverse = "relu_reverse" -> relu_reverse(ns, c)
    [] OTHER -> ns

(***************************************************************************)
(* The operators: each returns the heap with the nodes it allocated.       *)
(***************************************************************************)
\* add clearing the gradients of its operands
add_clearing_operands(ns, a, b) ==
  LET n1 == [ns EXCEPT ![a].grad = F(0)]
      n2 == [n1 EXCEPT ![b].grad = F(0)]
  IN  Append(n2, Value(ns[a].data + ns[b].data, <<a, b>>, "add_reverse"))

add(ns, a, b) ==
  Append(ns, Value(ns[a].data + ns[b].data, <<a, b>>, "add_reverse"))

mul(ns, a, b) ==
  Append(ns, Value(ns[a].data * ns[b].data, <<a, b>>, "mul_reverse"))

\* sub as add(a, mul(b, -1)): the negation keeps its link to b
sub_linked(ns, a, b) ==
  LET n1 == Append(ns, defaultValue(-1))
      n2 == mul(n1, b, Len(n1))
  IN  add(n2, a, Len(n2))

sub(ns, a, b) ==
  LET n1 == Append(ns, defaultValue(-ns[b].data))
  IN  add(n1, a, Len(n1))

pwr(ns, a, b) ==
  Append(ns, Value(Pow(ns[a].data, ns[b].data).v, <<a, b>>, "pwr_reverse"))

divide(ns, a, b) ==
  LET n1 == Append(ns, defaultValue(-1))
      n2 == pwr(n1, b, Len(n1))
  IN  mul(n2, a, Len(n2))

relu(ns, a) ==
  Append(ns, Value(IF ns[a].data > 0 THEN ns[a].data ELSE 0, <<a>>, "relu_reverse"))

\* the operands whose sum or product is an exact float
AddExact(x, y) == Abs(x + y) <= ExactMax
MulExact(x, y) == IF y = 0 THEN TRUE ELSE Abs(x) <= ExactMax \div Abs(y)

RECURSIVE PowFits(_, _)
PowFits(a, n) ==
  IF n = 0 THEN TRUE ELSE PowFits(a, n - 1) /\ MulExact(IntPow(a, n - 1), a)

\* the operands pwr() is modelled on: the forward value and both terms of
\* pwr_reverse are exact
PwrExact(ns, a, b) ==
  /\ ns[b].data \in -MaxExp..MaxExp
  /\ PowFits(ns[a].data, Abs(ns[b].data) + 1)
  /\ PowExact(ns[a].data, ns[b].data)
  /\ (ns[b].data < 0) => (ns[a].data # 0)
  /\ (ns[b].data # 0) => PowExact(ns[a].data, ns[b].data - 1)
  /\ (ns[b].data > 0) => LogExact(ns[a].data)

\* the seed after zeroing every gradient
Seed_zeroing(ns, r) ==
  [n \in 1..Len(ns) |-> [ns[n] EXCEPT !.grad = IF n = r THEN F(1) ELSE F(0)]]

\* line 800: root->grad = 1.0
Seed(ns, r) == [ns EXCEPT ![r].grad = F(1)]

(***************************************************************************)
(* Actions.  Each takes the bounds of the specification it is used in:     *)
(* the leaf values drawn, the size of the heap, the number of reverse      *)
(* calls.                                                                  *)
(***************************************************************************)
Init ==
  /\ nodes = <<>>
  /\ pc = "idle"
  /\ root = 0
  /\ dag = <<>>
  /\ visited = <<>>
  /\ i = 0
  /\ passes = 0
  /\ rooted = {}
  /\ entry = <<>>

\* the heap becomes ns
Alloc(ns) ==
  /\ nodes' = ns
  /\ UNCHANGED <<pc, root, dag, visited, i, passes, rooted, entry>>

DefaultValue(vals, maxN) ==
  /\ pc = "idle"
  /\ Len(nodes) + 1 <= maxN
  /\ \E x \in vals : Alloc(Append(nodes, defaultValue(x)))

Add(maxN) ==
  /\ pc = "idle"
  /\ Len(nodes) + 1 <= maxN
  /\ \E a, b \in Ids :
       /\ AddExact(nodes[a].data, nodes[b].data)
       /\ Alloc(add(nodes, a, b))

Sub(maxN) ==
  /\ pc = "idle"
  /\ Len(nodes) + 2 <= maxN
  /\ \E a, b \in Ids :
       /\ AddExact(nodes[a].data, -nodes[b].data)
       /\ Alloc(sub(nodes, a, b))

Mul(maxN) ==
  /\ pc = "idle"
  /\ Len(nodes) + 1 <= maxN
  /\ \E a, b \in Ids :
       /\ MulExact(nodes[a].data, nodes[b].data)
       /\ Alloc(mul(nodes, a, b))

Pwr(maxN) ==
  /\ pc = "idle"
  /\ Len(nodes) + 1 <= maxN
  /\ \E a, b \in Ids :
       /\ PwrExact(nodes, a, b)
       /\ Alloc(pwr(nodes, a, b))

Divide(maxN) ==
  /\ pc = "idle"
  /\ Len(nodes) + 3 <= maxN
  /\ \E a, b \in Ids :
       /\ PwrExact(Append(nodes, defaultValue(-1)), b, Len(nodes) + 1)
       /\ MulExact(nodes[a].data, Pow(nodes[b].data, -1).v)
       /\ Alloc(divide(nodes, a, b))

Relu(maxN) ==
  /\ pc = "idle"
  /\ Len(nodes) + 1 <= maxN
  /\ \E a \in Ids : Alloc(relu(nodes, a))

\* dag[MAX_DAG_SIZE] and visited[MAX_DAG_SIZE]: build_dag wrote past the end
\* of an array iff it left more than MAX_DAG_SIZE entries
Overrun(st) == Len(st.dag) > MAX_DAG_SIZE \/ Len(st.visited) > MAX_DAG_SIZE

\* What follows build_dag.  A write past the end of an array is undefined:
\* the process is stopped ("fault"), or the write lands in unused stack and
\* the pass goes on with what was written.
Outcomes(st) == IF Overrun(st) THEN {"walk", "fault"} ELSE {"walk"}

\* lines 793-800: the arrays, build_dag, the seed, the loop's start
ReverseCallOn(r, maxP) ==
  /\ pc = "idle"
  /\ passes < maxP
  /\ LET st == build_dag(nodes, r, [dag |-> <<>>, visited |-> <<>>])
     IN  /\ root' = r
         /\ dag' = st.dag
         /\ visited' = st.visited
         /\ nodes' = Seed(nodes, r)
         /\ i' = Len(st.dag)
         /\ passes' = passes + 1
         /\ rooted' = rooted \cup {r}
         /\ entry' = nodes
         /\ pc' \in Outcomes(st)

ReverseCall(maxP) == \E r \in Ids : ReverseCallOn(r, maxP)

\* lines 802-805: one iteration of the loop
ReverseStep ==
  /\ pc = "walk"
  /\ i >= 1
  /\ nodes' = ApplyRule(nodes, dag[i])
  /\ i' = i - 1
  /\ UNCHANGED <<pc, root, dag, visited, passes, rooted, entry>>

\* line 806: the loop is over, the arrays die with the frame
ReverseReturn ==
  /\ pc = "walk"
  /\ i = 0
  /\ pc' = "idle"
  /\ root' = 0
  /\ dag' = <<>>
  /\ visited' = <<>>
  /\ entry' = <<>>
  /\ UNCHANGED <<nodes, i, passes, rooted>>

Next ==
  \/ DefaultValue(LeafVals, MaxNodes)
  \/ Add(MaxNodes)
  \/ Sub(MaxNodes)
  \/ Mul(MaxNodes)
  \/ Pwr(MaxNodes)
  \/ Divide(MaxNodes)
  \/ Relu(MaxNodes)
  \/ ReverseCall(MaxPasses)
  \/ ReverseStep
  \/ ReverseReturn

Spec == Init /\ [][Next]_vars

NextArith ==
  \/ DefaultValue(ArithVals, MaxArithNodes)
  \/ Add(MaxArithNodes)
  \/ Sub(MaxArithNodes)
  \/ Mul(MaxArithNodes)
  \/ Relu(MaxArithNodes)
  \/ ReverseCall(MaxArithPasses)
  \/ ReverseStep
  \/ ReverseReturn

SpecArith == Init /\ [][NextArith]_vars

NextClip ==
  \/ DefaultValue(ClipVals, MaxClipNodes)
  \/ Add(MaxClipNodes)
  \/ Mul(MaxClipNodes)
  \/ ReverseCall(MaxClipPasses)
  \/ ReverseStep
  \/ ReverseReturn

SpecClip == Init /\ [][NextClip]_vars

NextRepeat ==
  \/ DefaultValue(RepeatVals, MaxRepeatNodes)
  \/ Add(MaxRepeatNodes)
  \/ ReverseCall(MaxRepeatPasses)
  \/ ReverseStep
  \/ ReverseReturn

SpecRepeat == Init /\ [][NextRepeat]_vars

\* The heap after summing m doubled leaves pairwise:
\*   x[j] = defaultValue(0) and d[j] = add(x[j], x[j]) for j = 1..m, then
\*   q = d[1..m]; repeatedly q.append(add(q[2t-1], q[2t])), t = 1..m-1.
\* The last node is the sum; it has 3m - 1 nodes below and including it.
DoubledSum(m) ==
  [n \in 1..(3 * m - 1) |->
     IF n <= m THEN defaultValue(0)
     ELSE IF n <= 2 * m THEN Value(0 + 0, <<n - m, n - m>>, "add_reverse")
     ELSE Value(0 + 0, <<m + 2 * (n - 2 * m) - 1, m + 2 * (n - 2 * m)>>,
                "add_reverse")]

InitSum ==
  /\ nodes \in {DoubledSum(m) : m \in SumLeaves}
  /\ pc = "idle"
  /\ root = 0
  /\ dag = <<>>
  /\ visited = <<>>
  /\ i = 0
  /\ passes = 0
  /\ rooted = {}
  /\ entry = <<>>

\* reverse(s) on the sum, the node allocated last
ReverseLast(maxP) == ReverseCallOn(Len(nodes), maxP)

NextSum ==
  \/ ReverseLast(MaxSumPasses)
  \/ ReverseStep
  \/ ReverseReturn

SpecSum == InitSum /\ [][NextSum]_vars

(***************************************************************************)
(* Notions the claims are stated in.                                       *)
(***************************************************************************)
Range(s) == {s[j] : j \in 1..Len(s)}

IsLeaf(ns, n) == ns[n].children = <<>> /\ ns[n].reverse = "NULL"

\* the nodes reachable from r through operand edges, r included
RECURSIVE Desc(_, _)
Desc(ns, r) ==
  {r} \cup UNION {Desc(ns, ns[r].children[j]) : j \in 1..Len(ns[r].children)}

\* a gradient clamped into [-10, 10], written out
Clamp(v) == IF v < -10 THEN -10 ELSE IF v > 10 THEN 10 ELSE v

Min(x, y) == IF x <= y THEN x ELSE y

\* reverse() has run its loop to the end and has not returned yet
PassDone == pc = "walk" /\ i = 0

\* n had gradient 0 when reverse() was called
Fresh(n) == entry[n].grad = F(0)

\* the heap of the running pass when the loop index is j: the rules of
\* dag[j+1 .. dag_size] have run on the heap reverse() was called with
RECURSIVE After(_)
After(j) ==
  IF j >= Len(dag) THEN [entry EXCEPT ![root].grad = F(1)]
  ELSE ApplyRule(After(j + 1), dag[j + 1])

\* how often x is an operand of c
Slots(ns, c, x) == Cardinality({j \in 1..Len(ns[c].children) : ns[c].children[j] = x})

\* the sum of what the Add nodes of the running pass added to x, unclipped
RECURSIVE AddContrib(_, _)
AddContrib(x, j) ==
  IF j > Len(dag) THEN 0
  ELSE AddContrib(x, j + 1)
       + (IF nodes[dag[j]].reverse = "add_reverse"
          THEN Slots(nodes, dag[j], x) * After(j)[dag[j]].grad.v
          ELSE 0)

(***************************************************************************)
(* C1: the sequence build_dag writes holds each node reachable from root   *)
(* exactly once: no node is emitted twice.                                 *)
(***************************************************************************)
DagEmitsOnce ==
  pc = "walk" =>
    /\ Range(dag) = Desc(nodes, root)
    /\ \A j, k \in 1..Len(dag) : dag[j] = dag[k] => j = k

(***************************************************************************)
(* C2: the sequence build_dag writes holds every node reachable from root, *)
(* ends with root, and every operand of dag[i] stands at an index below i. *)
(***************************************************************************)
DagIsTopological ==
  pc = "walk" =>
    /\ Range(dag) = Desc(nodes, root)
    /\ dag[Len(dag)] = root
    /\ \A k \in 1..Len(dag) :
         \A c \in Range(nodes[dag[k]].children) :
           \E j \in 1..(k - 1) : dag[j] = c

\* a pass over a graph in which one node is an operand of two other nodes
DagSharedNode ==
  /\ pc = "walk"
  /\ \E p, q, c \in Range(dag) :
       /\ p # q
       /\ c \in Range(nodes[p].children)
       /\ c \in Range(nodes[q].children)
       /\ nodes[c].children # <<>>

(***************************************************************************)
(* C3: for a leaf x with gradient 0 and c = add(x, x), after reverse(c)    *)
(* the gradient of x is 2: both operand slots are summed into x.           *)
(***************************************************************************)
SharedOperandSums ==
  PassDone =>
    \A x \in Ids :
      ( /\ nodes[root].reverse = "add_reverse"
        /\ nodes[root].children = <<x, x>>
        /\ IsLeaf(nodes, x)
        /\ Fresh(x) )
      => nodes[x].grad = F(2)

SharedOperandPass ==
  /\ PassDone
  /\ \E x \in Ids :
       /\ nodes[root].reverse = "add_reverse"
       /\ nodes[root].children = <<x, x>>
       /\ IsLeaf(nodes, x)
       /\ Fresh(x)
       /\ nodes[x].grad = F(2)

NeverLowered(x) ==
  \A j \in 1..Len(dag) : After(j - 1)[x].grad.v >= After(j)[x].grad.v

GradInRange ==
  \A n \in Ids : IsFin(nodes[n].grad) /\ nodes[n].grad.v \in -10..10

\* C5 as amended: the gradient of every node is NaN or lies in [-10, 10].
GradInRangeOrNaN ==
  \A n \in Ids :
    IsNaN(nodes[n].grad) \/ (IsFin(nodes[n].grad) /\ nodes[n].grad.v \in -10..10)

\* a Mul rule has just clamped an operand whose sum left the range
GradClamped ==
  /\ pc = "walk"
  /\ i < Len(dag)
  /\ nodes[dag[i + 1]].reverse = "mul_reverse"
  /\ \E a, b \in Ids :
       /\ a # b
       /\ nodes[dag[i + 1]].children = <<a, b>>
       /\ IsFin(After(i + 1)[a].grad)
       /\ IsFin(nodes[dag[i + 1]].grad)
       /\ After(i + 1)[a].grad.v + nodes[dag[i + 1]].grad.v * nodes[b].data > 10
       /\ nodes[a].grad = F(10)

(***************************************************************************)
(* C6: for leaves a and b, c = sub(a, b) has c.data = a.data - b.data and  *)
(* is an Add node over a and a new leaf holding -b.data with no link to b; *)
(* after reverse(c) the gradients of a and of the new leaf are 1 and the   *)
(* gradient of b is still 0.                                               *)
(***************************************************************************)
SubShape(a, b) ==
  LET n == Len(nodes) + 1
      c == Len(nodes) + 2
  IN  /\ Len(nodes') = c
      /\ \A m \in Ids : nodes'[m] = nodes[m]
      /\ nodes'[n] = [data |-> -nodes[b].data, grad |-> F(0),
                      children |-> <<>>, reverse |-> "NULL"]
      /\ nodes'[c] = [data |-> nodes[a].data - nodes[b].data, grad |-> F(0),
                      children |-> <<a, n>>, reverse |-> "add_reverse"]

\* root is what sub built from the leaf a: an Add node over a and the leaf
\* allocated just before it
SubRoot(a) ==
  /\ root > 1
  /\ nodes[root].reverse = "add_reverse"
  /\ nodes[root].children = <<a, root - 1>>
  /\ a # root - 1
  /\ IsLeaf(nodes, a)
  /\ IsLeaf(nodes, root - 1)
  /\ Fresh(a)
  /\ Fresh(root - 1)

OnlyRoot(c, a, b) ==
  /\ nodes[c].reverse = "add_reverse"
  /\ nodes[c].children = <<a, b>>
  /\ a # b
  /\ IsLeaf(nodes, a)
  /\ IsLeaf(nodes, b)
  /\ rooted = {c}

PassesAccumulate ==
  [][ /\ (pc = "idle" /\ pc' = "walk") =>
           /\ nodes'[root'].grad = F(1)
           /\ \A n \in Ids \ {root'} : nodes'[n].grad = nodes[n].grad
      /\ (PassDone /\ pc' = "idle") =>
           /\ nodes[root].grad = F(1)
           /\ \A a, b \in Ids :
                OnlyRoot(root, a, b) =>
                  /\ nodes[a].grad = F(Min(passes, 10))
                  /\ nodes[b].grad = F(Min(passes, 10))
    ]_vars

\* the eleventh pass over c = add(a, b) has run
ElevenPasses ==
  /\ PassDone
  /\ passes = 11
  /\ \E a, b \in Ids :
       /\ OnlyRoot(root, a, b)
       /\ entry[a].grad = F(10)
       /\ nodes[a].grad = F(10)

(***************************************************************************)
(* C8: for distinct leaves a and b with gradient 0, c = add(a, b) has      *)
(* c.data = a.data + b.data, and after reverse(c) the gradients of c, a    *)
(* and b are 1.                                                            *)
(***************************************************************************)
\* root is an Add or Mul node over the distinct leaves a and b
LeafPair(rule, a, b) ==
  /\ nodes[root].reverse = rule
  /\ nodes[root].children = <<a, b>>
  /\ a # b
  /\ IsLeaf(nodes, a)
  /\ IsLeaf(nodes, b)
  /\ Fresh(a)
  /\ Fresh(b)

AddOfLeaves ==
  /\ \A c \in Ids :
       nodes[c].reverse = "add_reverse" =>
         nodes[c].data = nodes[nodes[c].children[1]].data
                           + nodes[nodes[c].children[2]].data
  /\ PassDone =>
       \A a, b \in Ids :
         LeafPair("add_reverse", a, b) =>
           /\ nodes[root].grad = F(1)
           /\ nodes[a].grad = F(1)
           /\ nodes[b].grad = F(1)

AddOfLeavesPass ==
  /\ PassDone
  /\ \E a, b \in Ids :
       /\ LeafPair("add_reverse", a, b)
       /\ nodes[a].data # nodes[b].data
       /\ nodes[b].grad = F(1)

(***************************************************************************)
(* C9: for distinct leaves a and b with gradient 0, c = mul(a, b) has      *)
(* c.data = a.data * b.data, and after reverse(c) the gradient of a is     *)
(* b.data clamped into [-10, 10] and the gradient of b is a.data clamped.  *)
(***************************************************************************)
MulOfLeaves ==
  /\ \A c \in Ids :
       nodes[c].reverse = "mul_reverse" =>
         nodes[c].data = nodes[nodes[c].children[1]].data
                           * nodes[nodes[c].children[2]].data
  /\ PassDone =>
       \A a, b \in Ids :
         LeafPair("mul_reverse", a, b) =>
           /\ nodes[a].grad = F(Clamp(nodes[b].data))
           /\ nodes[b].grad = F(Clamp(nodes[a].data))

\* one gradient clamped from above, the other from below
MulOfLeavesPass ==
  /\ PassDone
  /\ \E a, b \in Ids :
       /\ LeafPair("mul_reverse", a, b)
       /\ nodes[b].data > 10
       /\ nodes[a].data < -10
       /\ nodes[a].grad = F(10)
       /\ nodes[b].grad = F(-10)

(***************************************************************************)
(* C10: relu(a).data is a.data when a.data > 0 and 0 otherwise; in the     *)
(* reverse pass the relu node adds its gradient to the gradient of a (the  *)
(* sum then clamped by grad_clip) when a.data > 0 and leaves it unchanged  *)
(* when a.data <= 0.                                                       *)
(***************************************************************************)
ReluGate ==
  [][ /\ \A c \in 1..Len(nodes') :
           nodes'[c].reverse = "relu_reverse" =>
             LET a == nodes'[c].children[1]
             IN  nodes'[c].data = IF nodes'[a].data > 0 THEN nodes'[a].data ELSE 0
      /\ (pc = "walk" /\ i >= 1 /\ nodes[dag[i]].reverse = "relu_reverse") =>
           LET c == dag[i]
               a == nodes[c].children[1]
           IN  /\ nodes[a].data > 0 =>
                    nodes'[a].grad = F(Clamp(nodes[a].grad.v + nodes[c].grad.v))
               /\ nodes[a].data <= 0 => nodes'[a].grad = nodes[a].grad
    ]_vars

\* a relu node with gradient 1 has just run its rule on an operand holding 0
ReluAtZero ==
  /\ pc = "walk"
  /\ i < Len(dag)
  /\ nodes[dag[i + 1]].reverse = "relu_reverse"
  /\ nodes[dag[i + 1]].grad = F(1)
  /\ nodes[nodes[dag[i + 1]].children[1]].data = 0
  /\ nodes[nodes[dag[i + 1]].children[1]].grad = F(0)

(***************************************************************************)
(* C11: the rule of c = pwr(a, b) adds log(a.data) * c.data * c.grad to    *)
(* the gradient of b, and adds nothing to it exactly when a.data <= 0: the *)
(* guard is on the base.  Stated for a # b and for the bases whose         *)
(* logarithm the model holds exactly (a.data <= 1).                        *)
(***************************************************************************)
PwrExponentTerm ==
  [][ (pc = "walk" /\ i >= 1 /\ nodes[dag[i]].reverse = "pwr_reverse") =>
        LET c == dag[i]
            a == nodes[c].children[1]
            b == nodes[c].children[2]
        IN  (a # b /\ nodes[a].data <= 1) =>
              /\ nodes[a].data <= 0 => nodes'[b].grad = nodes[b].grad
              /\ nodes[a].data > 0 =>
                   nodes'[b].grad =
                     grad_clip(FAdd(nodes[b].grad,
                                    FMul(FMul(Log(nodes[a].data), F(nodes[c].data)),
                                         nodes[c].grad)))
    ]_vars

(***************************************************************************)
(* C12: while the heap, and so the subgraph reachable from root, holds at  *)
(* most MAX_DAG_SIZE nodes, reverse(root) never leaves more than           *)
(* MAX_DAG_SIZE entries in dag or visited: dag_size and len_visited stay   *)
(* <= MAX_DAG_SIZE and no write goes past the end of an array.             *)
(***************************************************************************)
ArraysWithinCapacity ==
  Len(nodes) <= MAX_DAG_SIZE =>
    /\ Len(dag) <= MAX_DAG_SIZE
    /\ Len(visited) <= MAX_DAG_SIZE
    /\ pc # "fault"

(***************************************************************************)
(* C13: no operator call and no reverse call changes the data, the operand *)
(* list or the gradient rule of an existing node; an operator call leaves  *)
(* the gradient of every existing node unchanged; reverse(root) changes    *)
(* the gradient only of nodes reachable from root.                         *)
(***************************************************************************)
FrameEffects ==
  [][ /\ \A n \in Ids :
           /\ n <= Len(nodes')
           /\ nodes'[n].data = nodes[n].data
           /\ nodes'[n].children = nodes[n].children
           /\ nodes'[n].reverse = nodes[n].reverse
      /\ (pc = "idle" /\ pc' = "idle") =>
           \A n \in Ids : nodes'[n].grad = nodes[n].grad
      /\ (pc = "idle" /\ pc' # "idle") =>
           \A n \in Ids \ Desc(nodes, root') : nodes'[n].grad = nodes[n].grad
      /\ pc = "walk" =>
           \A n \in Ids \ Desc(nodes, root) : nodes'[n].grad = nodes[n].grad
      /\ PassDone =>
           \A n \in Ids \ Desc(nodes, root) : nodes[n].grad = entry[n].grad
    ]_vars

\* a second pass has run over an operator node and has left alone the
\* gradient an earlier pass gave to a node root does not reach
UnreachedKeepsGradient ==
  /\ PassDone
  /\ passes = 2
  /\ ~IsLeaf(nodes, root)
  /\ \E n \in Ids \ Desc(nodes, root) :
       /\ n \notin rooted
       /\ nodes[n].grad # F(0)
       /\ nodes[n].grad = entry[n].grad

(***************************************************************************)
(* C14: during one reverse(root) call the rule of each non-leaf node       *)
(* reachable from root is invoked exactly once, and only after the rule of *)
(* every reachable node that has it as an operand; for n = relu(x) with    *)
(* x.data > 0 and root = relu(add(n, n)), the gradient of x after the pass *)
(* is 2.  The loop invokes the rule of dag[i] for each i, from the end.    *)
(***************************************************************************)
\* the slots of dag that hold c: one invocation of c's rule each
Invocations(c) == {j \in 1..Len(dag) : dag[j] = c}

\* root = relu(add(n, n)) with n = relu(x) over a leaf x that held gradient 0
ReluOfDoubledRelu(x) ==
  /\ IsLeaf(nodes, x)
  /\ nodes[x].data > 0
  /\ \A m \in Desc(nodes, root) : Fresh(m)
  /\ nodes[root].reverse = "relu_reverse"
  /\ LET s == nodes[root].children[1]
     IN  /\ nodes[s].reverse = "add_reverse"
         /\ nodes[s].children[1] = nodes[s].children[2]
         /\ nodes[nodes[s].children[1]].reverse = "relu_reverse"
         /\ nodes[nodes[s].children[1]].children = <<x>>

RulesRunOnce ==
  /\ pc = "walk" =>
       \A c \in Desc(nodes, root) :
         ~IsLeaf(nodes, c) =>
           /\ Cardinality(Invocations(c)) = 1
           /\ \A p \in Desc(nodes, root) :
                c \in Range(nodes[p].children) =>
                  \A j \in Invocations(c), k \in Invocations(p) : j < k
  /\ PassDone =>
       \A x \in Ids : ReluOfDoubledRelu(x) => nodes[x].grad = F(2)

====
